---- MODULE Spec2Model ----
(***************************************************************************)
(* Request-processing core of the GraphQL server:                          *)
(*   - the batch coordinator runBatchHttpQuery (httpBatching.ts) and the   *)
(*     batch loop of the Express middleware (ApolloServerExpress),         *)
(*   - the document store KeyvLRU (an lru-cache behind Keyv),              *)
(*   - the use the request pipeline makes of the document store,           *)
(*   - runHttpQuery: the translation of an HTTP request into a GraphQL     *)
(*     request, the GET guard, the pipeline call and the error wrapping.   *)
(***************************************************************************)
EXTENDS Integers, Sequences, FiniteSets, TLC

VARIABLES
    \* ---- one batched HTTP request ----
    coordinator,      \* "runBatchHttpQuery" | "getMiddleware" | "none"
    bodyIsArray,      \* Array.isArray(req.body)
    batchSize,        \* number of request bodies of the batch
    pc,               \* pc[i]: state of the async map callback of element i
    outcome,          \* outcome[i]: what runHttpQuery gave callback i (completed ones)
    order,            \* indices in the order their callbacks completed
    combinedResponse, \* httpBatching.ts: the response being merged
    responseBodies,   \* value each fulfilled callback returned, by input index
    allPromise,       \* state of the Promise.all aggregate
    result,           \* what the coordinator returned or threw
    res,              \* Express response object: headers, statusCode, bodies sent
    \* ---- the document store ----
    lruList,          \* keys of the live entries, most recently used first
    cache,            \* cache[k]: entry (value, length) of live key k
    length,           \* lru-cache's running total of the entry lengths
    accessOrder,      \* keys in the order of their last access, latest first
    lastOp,           \* the last store call: its name, key and result
    \* ---- pipeline runs against the document store ----
    documentStore,    \* "KeyvLRU" | "null" : the configured store
    run,              \* run[p]: position, query, document of pipeline run p
    getCalls,         \* number of documentStore.get calls
    setCalls,         \* number of documentStore.set calls
    parseCalls,       \* number of parses
    \* ---- calls of runHttpQuery ----
    call,             \* call[p]: position, request, locals and result of call p
    heap,             \* the context objects and what they reference, by identity
    serverOptions     \* the options object the caller shares between the calls

batchVars == <<coordinator, bodyIsArray, batchSize, pc, outcome, order,
               combinedResponse, responseBodies, allPromise, result, res>>
storeVars == <<lruList, cache, length, accessOrder, lastOp>>
pipeVars  == <<documentStore, run, getCalls, setCalls, parseCalls>>
httpVars  == <<call, heap, serverOptions>>
vars == <<batchVars, storeVars, pipeVars, httpVars>>

(***************************************************************************)
(* Bounds of the model.                                                    *)
(***************************************************************************)
MaxBatch == 2

(***************************************************************************)
(* Values.                                                                 *)
(***************************************************************************)
\* statusCode undefined: `if (response.statusCode)` treats it like 0.
Unset == 0
\* a completeBody / callback value that is null or undefined
Null == <<>>
Some(s) == <<s>>

HeaderKeys == {"x"}
HeaderVals == {"a", "b"}
Bodies == {"p", "q"}
StatusCodes == {Unset, 201, 400}

\* all maps from a subset of keys to values
HeaderMaps(keys, vals) == UNION {[ks -> vals] : ks \in SUBSET keys}

\* HTTPGraphQLResponse values runHttpQuery can resolve with: a complete body
\* with any headers and status, or an incremental one (completeBody null)
Responses ==
    [kind: {"response"}, headers: HeaderMaps(HeaderKeys, HeaderVals),
     statusCode: StatusCodes, completeBody: {Some(b) : b \in Bodies}]
    \cup {[kind |-> "response", headers |-> <<>>, statusCode |-> Unset,
           completeBody |-> Null]}

\* HttpQueryError values runHttpQuery can reject with
HttpQueryErrors ==
    { [kind |-> "throw", name |-> "HttpQueryError", statusCode |-> 400,
       message |-> "bad request", headers |-> <<>>],
      [kind |-> "throw", name |-> "HttpQueryError", statusCode |-> 405,
       message |-> "method not allowed", headers |-> [allow |-> "POST"]] }

\* any other exception
OtherErrors ==
    { [kind |-> "throw", name |-> "Error", statusCode |-> Unset,
       message |-> "internal", headers |-> <<>>] }

IncrementalError ==
    [kind |-> "throw", name |-> "Error", statusCode |-> Unset,
     message |-> "Incremental delivery not implemented", headers |-> <<>>]

Outcomes == Responses \cup HttpQueryErrors \cup OtherErrors

isHttpQueryError(e) == e.name = "HttpQueryError"

(***************************************************************************)
(* Helpers of the batch merge.                                             *)
(***************************************************************************)
SetHeadersKeepingFirst(headers, new) ==
    [k \in DOMAIN headers \cup DOMAIN new |->
        IF k \in DOMAIN headers THEN headers[k] ELSE new[k]]

\* for (const [key, value] of response.headers) headers.set(key, value)
SetHeaders(headers, new) ==
    [k \in DOMAIN headers \cup DOMAIN new |->
        IF k \in DOMAIN new THEN new[k] ELSE headers[k]]

SetStatusAlways(old, new) == new

\* if (response.statusCode) { x.statusCode = response.statusCode }
SetStatus(old, new) == IF new # Unset THEN new ELSE old

\* Array.prototype.join's rendering of one element: null/undefined give ''
ElementString(v) == IF v = Null THEN "" ELSE v[1]

RECURSIVE JoinFrom(_, _, _)
JoinFrom(arr, i, n) ==
    IF i > n THEN ""
    ELSE IF i = n THEN ElementString(arr[i])
    ELSE ElementString(arr[i]) \o "," \o JoinFrom(arr, i + 1, n)

\* responseBodies.join(',')
Join(arr, n) == JoinFrom(arr, 1, n)

\* `[${responseBodies.join(',')}]`
ArrayLiteral(arr, n) == "[" \o Join(arr, n) \o "]"

StoreResultInCompletionOrder(arr, i, v) == [arr EXCEPT ![Len(order) + 1] = v]

\* where Promise.all puts the value of the callback of element i
StoreResult(arr, i, v) == [arr EXCEPT ![i] = v]

RejectAllNever(p, e) == p

\* Promise.all: the first rejection settles it, later ones are ignored
RejectAll(p, e) == IF p.state = "pending" THEN [state |-> "rejected", error |-> e] ELSE p

Pending == [kind |-> "pending"]

Indices == 1 .. batchSize

AnyFulfilled == \E i \in Indices : pc[i] = "fulfilled"

\* every callback returned its body: Promise.all fulfils
AllFulfilled == \A i \in Indices : pc[i] = "fulfilled"


(***************************************************************************)
(* The Express response object, as far as the middleware uses it.          *)
(***************************************************************************)
\* res.setHeader(name, value) for every entry
ResSetHeaders(r, new) == [r EXCEPT !.headers = SetHeaders(@, new)]

\* res.statusCode = code
ResSetStatus(r, code) == [r EXCEPT !.statusCode = code]

\* res.send(body): the body goes out with the status and headers set so far
ResSend(r, body) ==
    [r EXCEPT !.sent = Append(@, [statusCode |-> r.statusCode,
                                  headers |-> r.headers, body |-> body])]

\* handleError for an HttpQueryError (lines 453-461)
HandleError(r, error) ==
    ResSend(ResSetStatus(ResSetHeaders(r, error.headers), error.statusCode),
            Some(error.message))

IdleRes == [headers |-> <<>>, statusCode |-> Unset, sent |-> <<>>]

NewCombinedResponseDefaulted == [headers |-> <<>>, statusCode |-> 200, completeBody |-> ""]

\* const combinedResponse = { headers: new HeaderMap(), bodyChunks: null, completeBody: '' }
NewCombinedResponse == [headers |-> <<>>, statusCode |-> Unset, completeBody |-> ""]

(***************************************************************************)
(* State after the coordinator has started the callbacks of all elements   *)
(* (batchRequest.body.map(async ...) runs each up to its first await).     *)
(***************************************************************************)
InitBatch ==
    /\ coordinator \in {"runBatchHttpQuery", "getMiddleware"}
    /\ bodyIsArray \in BOOLEAN
    /\ batchSize \in 0 .. MaxBatch
    \* runBatchHttpQuery takes an array; the middleware wraps a single body
    /\ coordinator = "runBatchHttpQuery" => bodyIsArray
    /\ ~bodyIsArray => batchSize = 1
    /\ pc = [i \in 1 .. batchSize |-> "running"]
    /\ outcome = <<>>
    /\ order = <<>>
    /\ combinedResponse = NewCombinedResponse
    /\ responseBodies = [i \in 1 .. batchSize |-> Null]
    /\ allPromise = [state |-> "pending"]
    /\ result = Pending
    /\ res \in {[headers |-> <<>>, statusCode |-> s, sent |-> <<>>] : s \in {Unset, 200}}
    /\ coordinator = "runBatchHttpQuery" => res = IdleRes

IdleBatch ==
    /\ coordinator = "none"
    /\ bodyIsArray = TRUE
    /\ batchSize = 0
    /\ pc = <<>>
    /\ outcome = <<>>
    /\ order = <<>>
    /\ combinedResponse = NewCombinedResponse
    /\ responseBodies = <<>>
    /\ allPromise = [state |-> "pending"]
    /\ result = Pending
    /\ res = IdleRes

(***************************************************************************)
(* runBatchHttpQuery (httpBatching.ts)                                     *)
(***************************************************************************)
\* the callback of element i resumes after `await runHttpQuery(...)` with o
BatchComplete(i, o) ==
    /\ coordinator = "runBatchHttpQuery"
    /\ pc[i] = "running"
    /\ outcome' = (i :> o) @@ outcome
    /\ order' = Append(order, i)
    /\ IF o.kind = "throw"
       THEN /\ pc' = [pc EXCEPT ![i] = "rejected"]
            /\ allPromise' = RejectAll(allPromise, o)
            /\ UNCHANGED <<combinedResponse, responseBodies>>
       ELSE IF o.completeBody = Null
       THEN /\ pc' = [pc EXCEPT ![i] = "rejected"]
            /\ allPromise' = RejectAll(allPromise, IncrementalError)
            /\ UNCHANGED <<combinedResponse, responseBodies>>
       ELSE /\ combinedResponse' =
                 [combinedResponse EXCEPT
                    !.headers = SetHeaders(@, o.headers),
                    !.statusCode = SetStatus(@, o.statusCode)]
            /\ responseBodies' = StoreResult(responseBodies, i, o.completeBody)
            /\ pc' = [pc EXCEPT ![i] = "fulfilled"]
            /\ UNCHANGED allPromise
    /\ UNCHANGED <<coordinator, bodyIsArray, batchSize, result, res>>
    /\ UNCHANGED <<storeVars, pipeVars, httpVars>>

\* `await Promise.all(...)` rejected: runBatchHttpQuery throws its error
BatchThrow ==
    /\ coordinator = "runBatchHttpQuery"
    /\ result = Pending
    /\ allPromise.state = "rejected"
    /\ result' = allPromise.error
    /\ UNCHANGED <<coordinator, bodyIsArray, batchSize, pc, outcome, order,
                   combinedResponse, responseBodies, allPromise, res>>
    /\ UNCHANGED <<storeVars, pipeVars, httpVars>>

\* `await Promise.all(...)` fulfilled: lines 50-51
BatchReturn ==
    /\ coordinator = "runBatchHttpQuery"
    /\ result = Pending
    /\ allPromise.state = "pending"
    /\ AllFulfilled
    /\ combinedResponse' =
         [combinedResponse EXCEPT !.completeBody = ArrayLiteral(responseBodies, batchSize)]
    /\ result' = [kind |-> "response",
                  headers |-> combinedResponse'.headers,
                  statusCode |-> combinedResponse'.statusCode,
                  completeBody |-> combinedResponse'.completeBody]
    /\ UNCHANGED <<coordinator, bodyIsArray, batchSize, pc, outcome, order,
                   responseBodies, allPromise, res>>
    /\ UNCHANGED <<storeVars, pipeVars, httpVars>>

(***************************************************************************)
(* The batch loop of the Express middleware (getMiddleware, lines 512-562) *)
(***************************************************************************)
\* the callback of element i resumes after `await runHttpQuery(...)` with o
MiddlewareComplete(i, o) ==
    /\ coordinator = "getMiddleware"
    /\ pc[i] = "running"
    /\ outcome' = (i :> o) @@ outcome
    /\ order' = Append(order, i)
    /\ IF o.kind = "throw" /\ isHttpQueryError(o)
       THEN \* catch: handleError(error); return;
            /\ res' = HandleError(res, o)
            /\ responseBodies' = StoreResult(responseBodies, i, Null)
            /\ pc' = [pc EXCEPT ![i] = "fulfilled"]
            /\ UNCHANGED allPromise
       ELSE IF o.kind = "throw"
       THEN \* handleError rethrows what is no HttpQueryError
            /\ pc' = [pc EXCEPT ![i] = "rejected"]
            /\ allPromise' = RejectAll(allPromise, o)
            /\ UNCHANGED <<res, responseBodies>>
       ELSE IF o.completeBody = Null
       THEN /\ pc' = [pc EXCEPT ![i] = "rejected"]
            /\ allPromise' = RejectAll(allPromise, IncrementalError)
            /\ UNCHANGED <<res, responseBodies>>
       ELSE /\ res' = [ResSetHeaders(res, o.headers) EXCEPT
                          !.statusCode = SetStatus(@, o.statusCode)]
            /\ responseBodies' = StoreResult(responseBodies, i, o.completeBody)
            /\ pc' = [pc EXCEPT ![i] = "fulfilled"]
            /\ UNCHANGED allPromise
    /\ UNCHANGED <<coordinator, bodyIsArray, batchSize, combinedResponse, result>>
    /\ UNCHANGED <<storeVars, pipeVars, httpVars>>

\* `await Promise.all(...)` rejected: the handler's promise rejects
MiddlewareThrow ==
    /\ coordinator = "getMiddleware"
    /\ result = Pending
    /\ allPromise.state = "rejected"
    /\ result' = allPromise.error
    /\ UNCHANGED <<coordinator, bodyIsArray, batchSize, pc, outcome, order,
                   combinedResponse, responseBodies, allPromise, res>>
    /\ UNCHANGED <<storeVars, pipeVars, httpVars>>

\* `await Promise.all(...)` fulfilled: lines 555-562
MiddlewareSend ==
    /\ coordinator = "getMiddleware"
    /\ result = Pending
    /\ allPromise.state = "pending"
    /\ AllFulfilled
    /\ LET defaulted == IF res.statusCode = Unset THEN ResSetStatus(res, 200) ELSE res
       IN  res' = ResSend(defaulted,
                          IF bodyIsArray
                          THEN Some(ArrayLiteral(responseBodies, batchSize))
                          ELSE responseBodies[1])
    /\ result' = [kind |-> "sent"]
    /\ UNCHANGED <<coordinator, bodyIsArray, batchSize, pc, outcome, order,
                   combinedResponse, responseBodies, allPromise>>
    /\ UNCHANGED <<storeVars, pipeVars, httpVars>>


(***************************************************************************)
(* The document store: KeyvLRU = Keyv over LRU (an lru-cache with          *)
(* max = 2^20 * 30 and length = jsonBytesSizeCalculator).                  *)
(***************************************************************************)
\* max: Math.pow(2, 20) * 30
Max == 31457280

\* hashes of query texts, the keys callers use
Hashes == {"h1", "h2", "h3"}
\* parsed documents
Documents == {"d1", "d2", "d3", "d4"}

\* Buffer.byteLength(JSON.stringify(doc)): a third of max, two thirds, max, max + 1
DocumentBytes(d) ==
    CASE d = "d1" -> Max \div 3
      [] d = "d2" -> 2 * (Max \div 3)
      [] d = "d3" -> Max
      [] d = "d4" -> Max + 1

\* Keyv: the store key is `${namespace}:${key}` with namespace 'apollo'
KeyPrefix(k) == "apollo:" \o k

\* Keyv: what is stored is the serialization of {value, expires}
Serialize(v) == <<"value", v, "expires", Null>>
Deserialize(raw) == raw[2]

\* length(obj) { return LRU.jsonBytesSizeCalculator(obj) } on the stored value
jsonBytesSizeCalculator(raw) == DocumentBytes(Deserialize(raw))

RemoveKey(list, k) == SelectSeq(list, LAMBDA x : x # k)

\* the lru-cache as one value
LruState == [lruList |-> lruList, cache |-> cache, length |-> length]

\* lru-cache del(self, node)
LruDel(s, k) ==
    IF k \in DOMAIN s.cache
    THEN [lruList |-> RemoveKey(s.lruList, k),
          cache |-> [x \in DOMAIN s.cache \ {k} |-> s.cache[x]],
          length |-> s.length - s.cache[k].length]
    ELSE s

LruTrimNothing(s) == s

\* lru-cache trim(self): drop from the tail while the total is over max
RECURSIVE LruTrim(_)
LruTrim(s) ==
    IF s.length > Max /\ s.lruList # <<>>
    THEN LruTrim(LruDel(s, s.lruList[Len(s.lruList)]))
    ELSE s

LruUseWithoutMove(s, k) == s

\* lru-cache get(key) on a hit moves the node to the head of the list
LruUse(s, k) ==
    IF k \in DOMAIN s.cache
    THEN [s EXCEPT !.lruList = <<k>> \o RemoveKey(s.lruList, k)]
    ELSE s

\* lru-cache get(key): the value, or Null for undefined
LruGetValue(s, k) == IF k \in DOMAIN s.cache THEN Some(s.cache[k].value) ELSE Null

LruReplaceLengthCountedTwice(total, old, len) == total + len

\* what set adds to the running total when the key is live already
LruReplaceLength(total, old, len) == total + len - old

LruSetStoresNothing(s, k, raw) == s

LruSetAlwaysInserts(s, k, raw) ==
    [lruList |-> <<k>> \o s.lruList,
     cache |-> (k :> [value |-> raw, length |-> jsonBytesSizeCalculator(raw)]) @@ s.cache,
     length |-> s.length + jsonBytesSizeCalculator(raw)]

\* lru-cache set(key, value)
LruSet(s, k, raw) ==
    LET len == jsonBytesSizeCalculator(raw) IN
    IF k \in DOMAIN s.cache
    THEN IF len > Max
         THEN LruDel(s, k)
         ELSE LruTrim(LruUse(
                [s EXCEPT !.cache[k] = [value |-> raw, length |-> len],
                          !.length = LruReplaceLength(@, s.cache[k].length, len)], k))
    ELSE IF len > Max
         THEN s   \* oversized objects fall out of cache automatically
         ELSE LruTrim([lruList |-> <<k>> \o s.lruList,
                       cache |-> (k :> [value |-> raw, length |-> len]) @@ s.cache,
                       length |-> s.length + len])

\* LRU.clear(): super.reset()
LruReset == [lruList |-> <<>>, cache |-> <<>>, length |-> 0]

\* KeyvLRU.getTotalSize(): this.opts.store.length
getTotalSize == length

\* the hashes with a live entry
Live == {h \in Hashes : KeyPrefix(h) \in DOMAIN cache}

\* the last access of h is later than the last access of g
AccessedAfter(h, g) ==
    \E i, j \in 1 .. Len(accessOrder) :
        accessOrder[i] = h /\ accessOrder[j] = g /\ i < j

Touch(h) == <<h>> \o RemoveKey(accessOrder, h)

InitStore ==
    /\ lruList = <<>>
    /\ cache = <<>>
    /\ length = 0
    /\ accessOrder = <<>>
    /\ lastOp = [op |-> "new"]

\* Keyv get(key): store.get(keyPrefixed), then deserialize and take .value
KeyvGet(h) ==
    LET s == LruUse(LruState, KeyPrefix(h))
        raw == LruGetValue(LruState, KeyPrefix(h))
    IN  /\ lruList' = s.lruList
        /\ cache' = s.cache
        /\ length' = s.length
        /\ accessOrder' = IF raw = Null THEN accessOrder ELSE Touch(h)
        /\ lastOp' = [op |-> "get", key |-> h,
                      value |-> IF raw = Null THEN Null ELSE Some(Deserialize(raw[1]))]

\* Keyv set(key, value): store.set(keyPrefixed, serialize({value, expires}))
KeyvSet(h, d) ==
    LET s == LruSet(LruState, KeyPrefix(h), Serialize(d))
    IN  /\ lruList' = s.lruList
        /\ cache' = s.cache
        /\ length' = s.length
        /\ accessOrder' = Touch(h)
        /\ lastOp' = [op |-> "set", key |-> h, value |-> Some(d),
                      previous |-> IF h \in Live
                                   THEN Some(Deserialize(cache[KeyPrefix(h)].value))
                                   ELSE Null,
                      evicted |-> {g \in Live \ {h} : KeyPrefix(g) \notin DOMAIN s.cache}]

\* Keyv clear(): store.clear()
KeyvClear ==
    /\ lruList' = LruReset.lruList
    /\ cache' = LruReset.cache
    /\ length' = LruReset.length
    /\ accessOrder' = accessOrder
    /\ lastOp' = [op |-> "clear"]

\* Keyv delete(key): store.delete(keyPrefixed), LRU.delete is super.del(key)
KeyvDelete(h) ==
    LET s == LruDel(LruState, KeyPrefix(h))
    IN  /\ lruList' = s.lruList
        /\ cache' = s.cache
        /\ length' = s.length
        /\ accessOrder' = accessOrder
        /\ lastOp' = [op |-> "delete", key |-> h]

\* calls on the store from outside the pipeline
Get(h) == KeyvGet(h) /\ UNCHANGED <<batchVars, pipeVars, httpVars>>
Set(h, d) == KeyvSet(h, d) /\ UNCHANGED <<batchVars, pipeVars, httpVars>>
Clear == KeyvClear /\ UNCHANGED <<batchVars, pipeVars, httpVars>>
Delete(h) == KeyvDelete(h) /\ UNCHANGED <<batchVars, pipeVars, httpVars>>


(***************************************************************************)
(* Pipeline runs (processGraphQLRequest) as far as they use the document   *)
(* store: look the hash up, parse on a miss, populate the store, execute.  *)
(***************************************************************************)
MaxRuns == 3

Queries == {"q1", "q2", "q3"}

\* content hash of the query text
QueryHash(q) == CASE q = "q1" -> "h1" [] q = "q2" -> "h2" [] q = "q3" -> "h3"

\* the document the query text parses to; that of q3 is larger than max
ParseQuery(q) == CASE q = "q1" -> "d1" [] q = "q2" -> "d2" [] q = "q3" -> "d4"

IdleRun == [pc |-> "idle", query |-> "", document |-> Null, response |-> Null]

InitPipeline ==
    /\ documentStore \in {"KeyvLRU", "null"}
    /\ run = [p \in 1 .. MaxRuns |-> IdleRun]
    /\ getCalls = 0
    /\ setCalls = 0
    /\ parseCalls = 0

IdlePipeline ==
    /\ documentStore = "null"
    /\ run = <<>>
    /\ getCalls = 0
    /\ setCalls = 0
    /\ parseCalls = 0

FirstStepAlwaysLookup == "lookup"

\* where a run with a query string goes first: the store, unless it is null
FirstStep == IF documentStore = "null" THEN "parse" ELSE "lookup"

\* where a run goes after the parse: populate the store, unless it is null
StepAfterParse == IF documentStore = "null" THEN "execute" ELSE "populate"

\* run p starts with query q, once the runs before it are over
StartRun(p, q) ==
    /\ run[p].pc = "idle"
    /\ \A r \in 1 .. p - 1 : run[r].pc = "done"
    /\ run' = [run EXCEPT ![p] = [IdleRun EXCEPT !.pc = FirstStep, !.query = q]]
    /\ UNCHANGED <<documentStore, getCalls, setCalls, parseCalls>>
    /\ UNCHANGED <<batchVars, storeVars, httpVars>>

\* consult the document store
Lookup(p) ==
    /\ run[p].pc = "lookup"
    /\ KeyvGet(QueryHash(run[p].query))
    /\ getCalls' = getCalls + 1
    /\ run' = [run EXCEPT ![p].document = lastOp'.value,
                          ![p].pc = IF lastOp'.value = Null THEN "parse" ELSE "execute"]
    /\ UNCHANGED <<documentStore, setCalls, parseCalls>>
    /\ UNCHANGED <<batchVars, httpVars>>

\* on a miss, parse the query text
Parse(p) ==
    /\ run[p].pc = "parse"
    /\ parseCalls' = parseCalls + 1
    /\ run' = [run EXCEPT ![p].document = Some(ParseQuery(run[p].query)),
                          ![p].pc = StepAfterParse]
    /\ UNCHANGED <<documentStore, getCalls, setCalls>>
    /\ UNCHANGED <<batchVars, storeVars, httpVars>>

\* populate the store with the parsed document
Populate(p) ==
    /\ run[p].pc = "populate"
    /\ KeyvSet(QueryHash(run[p].query), run[p].document[1])
    /\ setCalls' = setCalls + 1
    /\ run' = [run EXCEPT ![p].pc = "execute"]
    /\ UNCHANGED <<documentStore, getCalls, parseCalls>>
    /\ UNCHANGED <<batchVars, httpVars>>

\* execute the document and return the result
Execute(p) ==
    /\ run[p].pc = "execute"
    /\ run' = [run EXCEPT ![p].pc = "done",
                          ![p].response = Some(<<"data", run[p].document[1]>>)]
    /\ UNCHANGED <<documentStore, getCalls, setCalls, parseCalls>>
    /\ UNCHANGED <<batchVars, storeVars, httpVars>>

(***************************************************************************)
(* JavaScript values of a request body and of the search parameters.       *)
(***************************************************************************)
Undefined == [t |-> "undefined"]
JsNull == [t |-> "null"]
Str(s) == [t |-> "string", s |-> s]
Num(n) == [t |-> "number", n |-> n]
Bool(b) == [t |-> "boolean", b |-> b]
Arr == [t |-> "array"]
Buf == [t |-> "buffer"]
\* a plain object with the own properties f
Obj(f) == [t |-> "object", f |-> f]
EmptyObj == Obj([k \in {} |-> Undefined])

\* typeof v
TypeOf(v) ==
    CASE v.t = "undefined" -> "undefined"
      [] v.t = "string" -> "string"
      [] v.t = "number" -> "number"
      [] v.t = "boolean" -> "boolean"
      [] OTHER -> "object"

\* the value in a boolean position: undefined, null, '', 0 and false are falsy
Truthy(v) ==
    ~ \/ v.t \in {"undefined", "null"}
      \/ v = Str("")
      \/ v = Num(0)
      \/ v = Bool(FALSE)

\* o[fieldName]; arrays, buffers and primitives have none of the fields read
Field(o, fieldName) ==
    IF o.t = "object" /\ fieldName \in DOMAIN o.f THEN o.f[fieldName] ELSE Undefined

\* Object.keys(o).length
KeyCount(o) == IF o.t = "object" THEN Cardinality(DOMAIN o.f) ELSE 0

\* o && typeof o === 'object' && !Buffer.isBuffer(o) && !Array.isArray(o)
isStringRecord(o) ==
    Truthy(o) /\ TypeOf(o) = "object" /\ o.t # "buffer" /\ o.t # "array"

isNonEmptyStringRecordAcceptingEmpty(o) == isStringRecord(o)

\* isStringRecord(o) && Object.keys(o).length > 0
isNonEmptyStringRecord(o) == isStringRecord(o) /\ KeyCount(o) > 0

\* new HttpQueryError(statusCode, message, isGraphQLError, headers)
HttpQueryError(statusCode, message, headers) ==
    [kind |-> "throw", name |-> "HttpQueryError", statusCode |-> statusCode,
     message |-> message, headers |-> headers]

NoHeaders == <<>>

\* what a helper gives back: a value, or the error it threw
Returned(v) == [threw |-> FALSE, value |-> v]
Threw(e) == [threw |-> TRUE, error |-> e]

\* typeof o[fieldName] === 'string' ? o[fieldName] : undefined
fieldIfString(o, fieldName) ==
    IF TypeOf(Field(o, fieldName)) = "string" THEN Field(o, fieldName) ELSE Undefined

\* isStringRecord(o[fieldName]) ? o[fieldName] : undefined
fieldIfRecord(o, fieldName) ==
    IF isStringRecord(Field(o, fieldName)) THEN Field(o, fieldName) ELSE Undefined

\* JSON.parse of the texts a search parameter takes here; no value for a
\* text that is no JSON
JsonTexts == {"{\"a\":1}", "{}", "[1]", "null", "1", "\"s\"", "true", "{bad"}

JsonParse(text) ==
    CASE text = "{\"a\":1}" -> Returned(Obj([a |-> Num(1)]))
      [] text = "{}" -> Returned(EmptyObj)
      [] text = "[1]" -> Returned(Arr)
      [] text = "null" -> Returned(JsNull)
      [] text = "1" -> Returned(Num(1))
      [] text = "\"s\"" -> Returned(Str("s"))
      [] text = "true" -> Returned(Bool(TRUE))
      [] OTHER -> Threw("SyntaxError")

InvalidJsonMessage(fieldName) ==
    "The " \o fieldName \o " search parameter contains invalid JSON."

NotAnObjectMessage(fieldName) ==
    "The " \o fieldName \o " search parameter should contain a JSON-encoded object."

jsonParsedFieldIfNonEmptyStringUnchecked(o, fieldName) ==
    IF TypeOf(Field(o, fieldName)) = "string" /\ Truthy(Field(o, fieldName))
    THEN LET parsed == JsonParse(Field(o, fieldName).s)
         IN  IF parsed.threw
             THEN Threw(HttpQueryError(400, InvalidJsonMessage(fieldName), NoHeaders))
             ELSE Returned(parsed.value)
    ELSE Returned(Undefined)

\* lines 137-160
jsonParsedFieldIfNonEmptyString(o, fieldName) ==
    IF TypeOf(Field(o, fieldName)) = "string" /\ Truthy(Field(o, fieldName))
    THEN LET parsed == JsonParse(Field(o, fieldName).s)
         IN  IF parsed.threw
             THEN Threw(HttpQueryError(400, InvalidJsonMessage(fieldName), NoHeaders))
             ELSE IF ~isStringRecord(parsed.value)
             THEN Threw(HttpQueryError(400, NotAnObjectMessage(fieldName), NoHeaders))
             ELSE Returned(parsed.value)
    ELSE Returned(Undefined)

QueriesMustBeStrings == "GraphQL queries must be strings."

\* the message of lines 188-193, its backquotes left out
QueryIsAnAst ==
    "GraphQL queries must be strings. It looks like you're sending the "
    \o "internal graphql-js representation of a parsed query in your "
    \o "request instead of a request in the GraphQL query language. You "
    \o "can convert an AST to a string using the print function from "
    \o "graphql, or use a client like apollo-client which converts "
    \o "the internal representation to a string for you."

ensureQueryIsStringOrMissingGeneric(query) ==
    IF ~Truthy(query) \/ TypeOf(query) = "string"
    THEN Returned(Undefined)
    ELSE Threw(HttpQueryError(400, QueriesMustBeStrings, NoHeaders))

\* lines 180-198: a falsy value counts as a missing query
ensureQueryIsStringOrMissing(query) ==
    IF ~Truthy(query) \/ TypeOf(query) = "string"
    THEN Returned(Undefined)
    ELSE IF Field(query, "kind") = Str("Document")
    THEN Threw(HttpQueryError(400, QueryIsAnAst, NoHeaders))
    ELSE Threw(HttpQueryError(400, QueriesMustBeStrings, NoHeaders))

(***************************************************************************)
(* runHttpQuery, lines 211-262: the HTTP request becomes a GraphQL request *)
(* or an HttpQueryError.                                                   *)
(***************************************************************************)
PostBodyMissing ==
    "POST body missing, invalid Content-Type, or JSON object has no keys."

GetQueryMissing == "GET query missing."

OnlyGetPost == "Apollo Server supports only GET/POST requests."

\* the two fields that are read as they are (222-224, 238-240)
PlainFields(o) ==
    [query |-> fieldIfString(o, "query"),
     operationName |-> fieldIfString(o, "operationName")]

\* case 'POST' (212-230)
TranslatePost(body) ==
    IF ~isNonEmptyStringRecord(body)
    THEN Threw(HttpQueryError(400, PostBodyMissing, NoHeaders))
    ELSE IF ensureQueryIsStringOrMissing(Field(body, "query")).threw
    THEN ensureQueryIsStringOrMissing(Field(body, "query"))
    ELSE Returned([query |-> PlainFields(body).query,
                   operationName |-> PlainFields(body).operationName,
                   variables |-> fieldIfRecord(body, "variables"),
                   extensions |-> fieldIfRecord(body, "extensions")])

\* case 'GET' (231-252)
TranslateGet(searchParams) ==
    IF ~isNonEmptyStringRecord(searchParams)
    THEN Threw(HttpQueryError(400, GetQueryMissing, NoHeaders))
    ELSE IF ensureQueryIsStringOrMissing(Field(searchParams, "query")).threw
    THEN ensureQueryIsStringOrMissing(Field(searchParams, "query"))
    ELSE IF jsonParsedFieldIfNonEmptyString(searchParams, "variables").threw
    THEN jsonParsedFieldIfNonEmptyString(searchParams, "variables")
    ELSE IF jsonParsedFieldIfNonEmptyString(searchParams, "extensions").threw
    THEN jsonParsedFieldIfNonEmptyString(searchParams, "extensions")
    ELSE Returned([query |-> PlainFields(searchParams).query,
                   operationName |-> PlainFields(searchParams).operationName,
                   variables |->
                       jsonParsedFieldIfNonEmptyString(searchParams, "variables").value,
                   extensions |->
                       jsonParsedFieldIfNonEmptyString(searchParams, "extensions").value])

TranslateBodyFirst(httpRequest) ==
    IF ~isNonEmptyStringRecord(httpRequest.body)
    THEN Threw(HttpQueryError(400, PostBodyMissing, NoHeaders))
    ELSE IF httpRequest.method = "POST" THEN TranslatePost(httpRequest.body)
    ELSE IF httpRequest.method = "GET" THEN TranslateGet(httpRequest.searchParams)
    ELSE Threw(HttpQueryError(405, OnlyGetPost, [Allow |-> "GET, POST"]))

\* switch (httpRequest.method)
Translate(httpRequest) ==
    IF httpRequest.method = "POST" THEN TranslatePost(httpRequest.body)
    ELSE IF httpRequest.method = "GET" THEN TranslateGet(httpRequest.searchParams)
    ELSE Threw(HttpQueryError(405, OnlyGetPost, [Allow |-> "GET, POST"]))

(***************************************************************************)
(* The requests the calls are made with.                                   *)
(***************************************************************************)
\* query texts, by what the pipeline makes of them
QueryTexts == {"{ hello }", "mutation { m }", "subscription { s }",
               "{ hello", "{ nothing }"}

\* values of the `query` property
DocumentAst == Obj([kind |-> Str("Document")])
OtherObject == Obj([kind |-> Str("Field")])

QueryValues ==
    {Str("{ hello }"), Str(""), JsNull, Num(0), Bool(FALSE), Num(5), Bool(TRUE),
     DocumentAst, OtherObject, Arr}

\* values of variables and extensions in a POST body
RecordValues == {Obj([a |-> Num(1)]), EmptyObj, Str("{\"a\":1}"), Arr, JsNull, Num(1)}

\* values of variables and extensions among the search parameters
ParamValues == {Str(text) : text \in JsonTexts} \cup {Str(""), Arr}

\* the objects with or without a query, and with at most one of variables
\* and extensions, or both with the same value
ObjectsWith(queries, records) ==
    UNION { UNION { { Obj([k \in qs \cup vs |-> IF k = "query" THEN q ELSE r])
                      : r \in records }
                    : vs \in SUBSET {"variables", "extensions"} }
            : q \in queries, qs \in SUBSET {"query"} }
    \cup { Obj([variables |-> v, extensions |-> x]) : v \in records, x \in records }

\* objects that differ in operationName
NamedOperations ==
    {Obj([operationName |-> Str("Op")]),
     Obj([query |-> Str("{ hello }"), operationName |-> Str("Op")]),
     Obj([query |-> Str("{ hello }"), operationName |-> Num(1)])}

\* bodies that are no non-empty object
NoRecords == {Undefined, JsNull, Str("{ hello }"), Num(1), Arr, Buf, EmptyObj}

\* requests that exercise the translation
TranslationRequests ==
    [method : {"POST"}, body : NoRecords \cup ObjectsWith(QueryValues, RecordValues)
                           \cup NamedOperations,
     searchParams : {EmptyObj}]
    \cup [method : {"GET"}, body : {Undefined},
          searchParams : {Undefined, EmptyObj}
                         \cup ObjectsWith({Str("{ hello }"), Str(""), DocumentAst, Arr},
                                          ParamValues)
                         \cup NamedOperations]
    \cup [method : {"PUT"},
          body : {Undefined, EmptyObj, Obj([query |-> Str("{ hello }")])},
          searchParams : {EmptyObj, Obj([query |-> Str("{ hello }")])}]

\* requests that differ in what the pipeline does with the query
PipelineRequests ==
    [method : {"POST"}, body : {Obj([query |-> Str(q)]) : q \in QueryTexts},
     searchParams : {EmptyObj}]
    \cup [method : {"GET"}, body : {Undefined},
          searchParams : {Obj([query |-> Str(q)]) : q \in QueryTexts}]

Requests == TranslationRequests \cup PipelineRequests

(***************************************************************************)
(* Serialization of a response (lines 372-387).                            *)
(***************************************************************************)
\* JSON text of the values a response holds
ErrorsJson(e) == "[{\"message\":\"" \o e \o "\"}]"
DataJson(d) == IF d = "null" THEN "null" ELSE "{\"hello\":\"world\"}"
ExtensionsJson(x) == "{\"" \o x \o "\":1}"

\* the properties JSON.stringify writes: those whose value is not undefined
RECURSIVE Members(_, _)
Members(pairs, i) ==
    IF i > Len(pairs) THEN <<>>
    ELSE IF pairs[i][2] = Null THEN Members(pairs, i + 1)
    ELSE <<Some("\"" \o pairs[i][1] \o "\":" \o pairs[i][2][1])>> \o Members(pairs, i + 1)

\* JSON.stringify of an object given as its <<key, value text>> pairs in order
JSONStringify(pairs) ==
    "{" \o Join(Members(pairs, 1), Len(Members(pairs, 1))) \o "}"

\* JSON.stringify(value) + '\n'
prettyJSONStringify(pairs) == JSONStringify(pairs) \o "\n"

ErrorsMember(response) ==
    <<"errors", IF response.errors = Null THEN Null
                ELSE Some(ErrorsJson(response.errors[1]))>>

DataMember(response) ==
    <<"data", IF response.data = "undefined" THEN Null
              ELSE Some(DataJson(response.data))>>

ExtensionsMember(response) ==
    <<"extensions", IF response.extensions = Null THEN Null
                    ELSE Some(ExtensionsJson(response.extensions[1]))>>

\* { errors, data, extensions } in this order
serializeGraphQLResponse(response) ==
    <<ErrorsMember(response), DataMember(response), ExtensionsMember(response)>>

\* { errors: response.errors, extensions: response.extensions } (343-347)
ErrorOnly(response) == <<ErrorsMember(response), ExtensionsMember(response)>>

ContentType == "content-type" :> "application/json"

\* response.http?.statusCode || 400
ErrorOnlyStatus(response) ==
    IF response.statusCode # Unset THEN response.statusCode ELSE 400

\* throwHttpGraphQLError(500, [error], options): lines 75-117
throwHttpGraphQLError(statusCode, error) ==
    HttpQueryError(statusCode,
                   prettyJSONStringify(<<<<"errors", Some(ErrorsJson(error.message))>>>>),
                   "Content-Type" :> "application/json")

\* the catch of runHttpQuery (353-359)
Caught(error) ==
    IF error.name = "HttpQueryError" THEN error ELSE throwHttpGraphQLError(500, error)

\* lines 361-369 read `responseInit`, which is declared nowhere
ReferenceError ==
    [kind |-> "throw", name |-> "ReferenceError", statusCode |-> Unset,
     message |-> "responseInit is not defined", headers |-> NoHeaders]

(***************************************************************************)
(* The context object and its per-operation copy (lines 324, 389-391).     *)
(***************************************************************************)
\* identities of the objects: the caller's context, the data source it
\* references, and the copy made for call p
CallerContext == <<"context", 0>>
DataSource == <<"dataSource", 0>>
ContextOf(p) == <<"context", p>>

InitHeap ==
    (CallerContext :> [marker |-> Null, dataSources |-> DataSource])
    @@ (DataSource :> [users |-> {}])

cloneObjectSameObject(h, object, fresh) == [ref |-> object, heap |-> h]

\* Object.assign(Object.create(Object.getPrototypeOf(object)), object):
\* a new object with the own properties of `object`, values copied as they are
cloneObject(h, object, fresh) ==
    [ref |-> fresh, heap |-> (fresh :> h[object]) @@ h]

(***************************************************************************)
(* Calls of runHttpQuery.                                                  *)
(***************************************************************************)
GetGuard == "checkOperation"

IdleCall ==
    [pc |-> "idle", httpRequest |-> Null, graphqlRequest |-> Null, plugins |-> <<>>,
     context |-> Null, parsed |-> FALSE, validated |-> FALSE, operation |-> Null,
     cacheTouched |-> FALSE, executed |-> FALSE, response |-> Null, body |-> Null,
     wrote |-> Null, result |-> Pending]

ServerOptions ==
    { [plugins |-> <<>>, debug |-> Null, nodeEnv |-> "production"],
      [plugins |-> <<"usageReporting">>, debug |-> Null, nodeEnv |-> "development"],
      [plugins |-> <<"usageReporting">>, debug |-> Some(FALSE), nodeEnv |-> "development"] }

\* debugFromNodeEnv (123-125)
debugFromNodeEnv(nodeEnv) == nodeEnv # "production" /\ nodeEnv # "test"

\* lines 205-207
DefaultDebug(options) ==
    IF options.debug = Null
    THEN [options EXCEPT !.debug = Some(debugFromNodeEnv(options.nodeEnv))]
    ELSE options

PluginsGuardingAll(method, options) == <<GetGuard>> \o options.plugins

\* lines 264-287: a copy of the plugins, the guard first for a GET
Plugins(method, options) ==
    IF method = "GET" THEN <<GetGuard>> \o options.plugins ELSE options.plugins

\* n calls about to be made with one of the given options objects
InitHttp(n, options) ==
    /\ call = [p \in 1 .. n |-> IdleCall]
    /\ heap = InitHeap
    /\ serverOptions \in options

IdleHttp ==
    /\ call = <<>>
    /\ heap = InitHeap
    /\ serverOptions = [plugins |-> <<>>, debug |-> Null, nodeEnv |-> "production"]

Calls == DOMAIN call

\* call p of runHttpQuery(httpRequest, context, options), up to its first await
runHttpQuery(p, httpRequest) ==
    /\ call[p].pc = "idle"
    /\ serverOptions' = DefaultDebug(serverOptions)
    /\ LET t == Translate(httpRequest)
           clone == cloneObject(heap, CallerContext, ContextOf(p))
       IN  IF t.threw
           THEN /\ call' = [call EXCEPT ![p] =
                       [IdleCall EXCEPT !.pc = "done",
                                        !.httpRequest = Some(httpRequest),
                                        !.result = t.error]]
                /\ UNCHANGED heap
           ELSE /\ call' = [call EXCEPT ![p] =
                       [IdleCall EXCEPT !.pc = "parse",
                                        !.httpRequest = Some(httpRequest),
                                        !.graphqlRequest = Some(t.value),
                                        !.plugins = Plugins(httpRequest.method,
                                                            serverOptions'),
                                        !.context = Some(clone.ref)]]
                /\ heap' = clone.heap
    /\ UNCHANGED <<batchVars, storeVars, pipeVars>>

(***************************************************************************)
(* processGraphQLRequest, the pipeline runHttpQuery awaits (line 331):     *)
(* parse, validate, resolve the operation and call the didResolveOperation *)
(* hooks, execute.  A failure before the execution gives a response with   *)
(* errors and no data.                                                     *)
(***************************************************************************)
\* what the plugins may have left on the response: extensions, a status
Decorations == [extensions : {Null, Some("trace")}, statusCode : {Unset, 403}]
Undecorated == [extensions |-> Null, statusCode |-> Unset]

\* what the execution gives: data, data and field errors, or an exception
ExecutionResults ==
    { [kind |-> "result", errors |-> Null, data |-> "object"],
      [kind |-> "result", errors |-> Some("field failed"), data |-> "object"],
      [kind |-> "result", errors |-> Some("field failed"), data |-> "null"],
      [kind |-> "throw", name |-> "TypeError", statusCode |-> Unset,
       message |-> "resolver crashed", headers |-> NoHeaders] }

QueryOf(c) == c.graphqlRequest[1].query

\* the operation type of a query text that parses and validates
OperationOf(text) ==
    CASE text = "mutation { m }" -> "mutation"
      [] text = "subscription { s }" -> "subscription"
      [] OTHER -> "query"

GraphQLResponse(errors, data, d) ==
    [errors |-> errors, data |-> data, extensions |-> d.extensions,
     statusCode |-> d.statusCode]

\* the pipeline resolves with a response
Respond(c, response) == [c EXCEPT !.pc = "returned", !.response = Some(response)]

\* the pipeline, or runHttpQuery itself, throws: the call is over
Reject(c, error) == [c EXCEPT !.pc = "done", !.result = error]

didResolveOperationAllowingAll(operation) == Returned(Undefined)

\* the hook of the GET guard (272-283)
didResolveOperation(operation) ==
    IF operation # "query"
    THEN Threw(HttpQueryError(405, "GET supports only query operation",
                              [Allow |-> "POST"]))
    ELSE Returned(Undefined)

\* the other plugins of the model have no didResolveOperation hook
Guarded(c) == \E i \in 1 .. Len(c.plugins) : c.plugins[i] = GetGuard

ProcessParse(p, d) ==
    /\ call[p].pc = "parse"
    /\ LET c == call[p]
       IN  call' = [call EXCEPT ![p] =
               IF ~Truthy(QueryOf(c))
               THEN Respond(c, GraphQLResponse(Some("no query"), "undefined", d))
               ELSE IF QueryOf(c).s = "{ hello"
               THEN Respond([c EXCEPT !.cacheTouched = TRUE],
                            GraphQLResponse(Some("syntax error"), "undefined", d))
               ELSE [c EXCEPT !.cacheTouched = TRUE, !.parsed = TRUE,
                              !.pc = "validate"]]
    /\ UNCHANGED <<heap, serverOptions>>
    /\ UNCHANGED <<batchVars, storeVars, pipeVars>>

ProcessValidate(p, d) ==
    /\ call[p].pc = "validate"
    /\ LET c == call[p]
       IN  call' = [call EXCEPT ![p] =
               IF QueryOf(c).s = "{ nothing }"
               THEN Respond(c, GraphQLResponse(Some("unknown field"), "undefined", d))
               ELSE [c EXCEPT !.validated = TRUE, !.pc = "resolveOperation"]]
    /\ UNCHANGED <<heap, serverOptions>>
    /\ UNCHANGED <<batchVars, storeVars, pipeVars>>

\* an HttpQueryError of a hook leaves the pipeline and passes the catch of
\* runHttpQuery
ProcessResolveOperation(p) ==
    /\ call[p].pc = "resolveOperation"
    /\ LET c == [call[p] EXCEPT !.operation = Some(OperationOf(QueryOf(call[p]).s))]
           hook == didResolveOperation(c.operation[1])
       IN  call' = [call EXCEPT ![p] =
               IF Guarded(c) /\ hook.threw
               THEN Reject(c, Caught(hook.error))
               ELSE [c EXCEPT !.pc = "execute"]]
    /\ UNCHANGED <<heap, serverOptions>>
    /\ UNCHANGED <<batchVars, storeVars, pipeVars>>

ProcessExecute(p, r, d) ==
    /\ call[p].pc = "execute"
    /\ LET c == [call[p] EXCEPT !.executed = TRUE]
       IN  call' = [call EXCEPT ![p] =
               IF r.kind = "throw"
               THEN Reject(c, Caught(r))
               ELSE Respond(c, GraphQLResponse(r.errors, r.data, d))]
    /\ UNCHANGED <<heap, serverOptions>>
    /\ UNCHANGED <<batchVars, storeVars, pipeVars>>

(***************************************************************************)
(* runHttpQuery after the await (lines 335-369).                           *)
(***************************************************************************)
\* lines 337-349
ErrorOnlyResponse(response) ==
    [kind |-> "response",
     statusCode |-> ErrorOnlyStatus(response),
     headers |-> ContentType,
     completeBody |-> Some(prettyJSONStringify(ErrorOnly(response)))]

Resume(p) ==
    /\ call[p].pc = "returned"
    /\ LET c == call[p]
           response == c.response[1]
       IN  call' = [call EXCEPT ![p] =
               IF response.errors # Null /\ response.data = "undefined"
               THEN [c EXCEPT !.pc = "done", !.result = ErrorOnlyResponse(response)]
               ELSE [c EXCEPT !.pc = "done",
                       !.body = Some(prettyJSONStringify(
                                         serializeGraphQLResponse(response))),
                       !.result = ReferenceError]]
    /\ UNCHANGED <<heap, serverOptions>>
    /\ UNCHANGED <<batchVars, storeVars, pipeVars>>

(***************************************************************************)
(* What an operation does with its context while its pipeline runs.        *)
(***************************************************************************)
InPipeline(c) == c.pc \in {"parse", "validate", "resolveOperation", "execute"}

\* the pipeline puts its marker on the context it was given
MarkContext(p) ==
    /\ InPipeline(call[p])
    /\ call[p].wrote = Null
    /\ heap' = [heap EXCEPT ![call[p].context[1]].marker = Some(p)]
    /\ call' = [call EXCEPT ![p].wrote = Some(p)]
    /\ UNCHANGED serverOptions
    /\ UNCHANGED <<batchVars, storeVars, pipeVars>>

\* a resolver uses the data source the context references
UseDataSource(p) ==
    /\ call[p].pc = "execute"
    /\ p \notin heap[heap[call[p].context[1]].dataSources].users
    /\ heap' = [heap EXCEPT ![heap[call[p].context[1]].dataSources].users = @ \cup {p}]
    /\ UNCHANGED <<call, serverOptions>>
    /\ UNCHANGED <<batchVars, storeVars, pipeVars>>

(***************************************************************************)
(* Specifications.                                                         *)
(***************************************************************************)
\* one batched request
Init == InitBatch /\ InitStore /\ IdlePipeline /\ IdleHttp

Next ==
    \/ \E i \in Indices, o \in Outcomes : BatchComplete(i, o)
    \/ BatchThrow
    \/ BatchReturn
    \/ \E i \in Indices, o \in Outcomes : MiddlewareComplete(i, o)
    \/ MiddlewareThrow
    \/ MiddlewareSend

Spec == Init /\ [][Next]_vars

\* runBatchHttpQuery alone; the event loop runs the continuation of the
\* aggregate await once Promise.all is settled, while an operation may
\* never complete
InitRunBatch == Init /\ coordinator = "runBatchHttpQuery"

NextRunBatch ==
    \/ \E i \in Indices, o \in Outcomes : BatchComplete(i, o)
    \/ BatchThrow
    \/ BatchReturn

SpecFair ==
    /\ InitRunBatch
    /\ [][NextRunBatch]_vars
    /\ WF_vars(BatchReturn)
    /\ WF_vars(BatchThrow)

\* calls on the document store
InitDocumentStore == IdleBatch /\ InitStore /\ IdlePipeline /\ IdleHttp

NextStore ==
    \/ \E h \in Hashes : Get(h)
    \/ \E h \in Hashes, d \in Documents : Set(h, d)
    \/ Clear
    \/ \E h \in Hashes : Delete(h)

SpecStore == InitDocumentStore /\ [][NextStore]_vars

\* pipeline runs in sequence
InitRuns == IdleBatch /\ InitStore /\ InitPipeline /\ IdleHttp

NextPipeline ==
    \/ \E p \in 1 .. MaxRuns, q \in Queries : StartRun(p, q)
    \/ \E p \in 1 .. MaxRuns : Lookup(p)
    \/ \E p \in 1 .. MaxRuns : Parse(p)
    \/ \E p \in 1 .. MaxRuns : Populate(p)
    \/ \E p \in 1 .. MaxRuns : Execute(p)

SpecPipeline == InitRuns /\ [][NextPipeline]_vars

\* run p starts with query q while other runs are in flight
StartConcurrentRun(p, q) ==
    /\ run[p].pc = "idle"
    /\ run' = [run EXCEPT ![p] = [IdleRun EXCEPT !.pc = FirstStep, !.query = q]]
    /\ UNCHANGED <<documentStore, getCalls, setCalls, parseCalls>>
    /\ UNCHANGED <<batchVars, storeVars, httpVars>>

\* pipeline runs in flight together; a call of the store is one step
NextConcurrent ==
    \/ \E p \in 1 .. MaxRuns, q \in Queries : StartConcurrentRun(p, q)
    \/ \E p \in 1 .. MaxRuns : Lookup(p)
    \/ \E p \in 1 .. MaxRuns : Parse(p)
    \/ \E p \in 1 .. MaxRuns : Populate(p)
    \/ \E p \in 1 .. MaxRuns : Execute(p)

SpecConcurrent == InitRuns /\ [][NextConcurrent]_vars

\* one call of runHttpQuery
InitRun == IdleBatch /\ InitStore /\ IdlePipeline /\ InitHttp(1, ServerOptions)

NextRun ==
    \/ \E p \in Calls, r \in Requests : runHttpQuery(p, r)
    \/ \E p \in Calls, d \in Decorations : ProcessParse(p, d)
    \/ \E p \in Calls, d \in Decorations : ProcessValidate(p, d)
    \/ \E p \in Calls : ProcessResolveOperation(p)
    \/ \E p \in Calls, r \in ExecutionResults, d \in Decorations : ProcessExecute(p, r, d)
    \/ \E p \in Calls : Resume(p)
    \/ \E p \in Calls : MarkContext(p)
    \/ \E p \in Calls : UseDataSource(p)

SpecRun == InitRun /\ [][NextRun]_vars

\* runBatchHttpQuery with the calls of runHttpQuery it awaits
BatchOptions == {[plugins |-> <<"usageReporting">>, debug |-> Null, nodeEnv |-> "development"]}

\* the elements of the body array, and the request they arrive in
BatchBodies == {Obj([query |-> Str("{ hello }")]), Obj([query |-> Str("{ hello")]), Num(1)}

BatchRequests ==
    [method : {"POST"}, body : BatchBodies, searchParams : {EmptyObj}]
    \cup [method : {"GET"}, body : {Obj([query |-> Str("{ hello }")])},
          searchParams : {Obj([query |-> Str("mutation { m }")])}]

\* what the executions of a batch give: data, errors with null data, an exception
BatchExecutionResults ==
    {r \in ExecutionResults : r.kind = "throw" \/ r.errors = Null \/ r.data = "null"}

\* { ...batchRequest, body }: the calls differ in the body only
SameBatchRequest(r) ==
    \A q \in Calls : call[q].pc # "idle" =>
        /\ call[q].httpRequest[1].method = r.method
        /\ call[q].httpRequest[1].searchParams = r.searchParams

\* body.map(async ...) starts the calls one after the other, each up to its
\* first await, before any of them goes on
StartedBefore(p) == \A q \in Calls : q < p => call[q].pc # "idle"
AllStarted == \A q \in Calls : call[q].pc # "idle"

\* the callback of element i resumes with what its call gave
AwaitRunHttpQuery(i) ==
    /\ call[i].pc = "done"
    /\ BatchComplete(i, call[i].result)

InitBatchRun ==
    /\ InitBatch
    /\ coordinator = "runBatchHttpQuery"
    /\ InitStore
    /\ IdlePipeline
    /\ InitHttp(batchSize, BatchOptions)

NextBatchRun ==
    \/ \E p \in Calls, r \in BatchRequests :
          StartedBefore(p) /\ SameBatchRequest(r) /\ runHttpQuery(p, r)
    \/ \E p \in Calls : AllStarted /\ ProcessParse(p, Undecorated)
    \/ \E p \in Calls : AllStarted /\ ProcessValidate(p, Undecorated)
    \/ \E p \in Calls : AllStarted /\ ProcessResolveOperation(p)
    \/ \E p \in Calls, r \in BatchExecutionResults :
          AllStarted /\ ProcessExecute(p, r, Undecorated)
    \/ \E p \in Calls : AllStarted /\ Resume(p)
    \/ \E p \in Calls : AllStarted /\ MarkContext(p)
    \/ \E p \in Calls : AllStarted /\ UseDataSource(p)
    \/ \E i \in Calls : AwaitRunHttpQuery(i)
    \/ BatchThrow
    \/ BatchReturn

SpecBatchRun == InitBatchRun /\ [][NextBatchRun]_vars

\* requests handled side by side with the one options object of the server
MaxRequests == 2

SharedRequests ==
    [method : {"POST"},
     body : {Obj([query |-> Str("mutation { m }")]), Obj([query |-> Str("{ hello }")])},
     searchParams : {EmptyObj}]
    \cup [method : {"GET"}, body : {Undefined},
          searchParams : {Obj([query |-> Str("mutation { m }")]),
                          Obj([query |-> Str("{ hello }")])}]

InitRequests == IdleBatch /\ InitStore /\ IdlePipeline /\ InitHttp(MaxRequests, ServerOptions)

NextRequests ==
    \/ \E p \in Calls, r \in SharedRequests : runHttpQuery(p, r)
    \/ \E p \in Calls : ProcessParse(p, Undecorated)
    \/ \E p \in Calls : ProcessValidate(p, Undecorated)
    \/ \E p \in Calls : ProcessResolveOperation(p)
    \/ \E p \in Calls, r \in BatchExecutionResults : ProcessExecute(p, r, Undecorated)
    \/ \E p \in Calls : Resume(p)

SpecRequests == InitRequests /\ [][NextRequests]_vars


(***************************************************************************)
(* Properties of the batch coordinator.                                    *)
(***************************************************************************)
\* every element completed and runHttpQuery resolved for each of them
AllResolved ==
    /\ DOMAIN outcome = Indices
    /\ \A i \in Indices : outcome[i].kind = "response"

\* the coordinator has handed a merged response over
Delivered == result.kind \in {"response", "sent"}

\* the merged response: what runBatchHttpQuery returned, or the last res.send
Merged ==
    IF coordinator = "runBatchHttpQuery"
    THEN [headers |-> result.headers, statusCode |-> result.statusCode,
          body |-> Some(result.completeBody)]
    ELSE res.sent[Len(res.sent)]

\* body_1 , ... , body_k of the first k input elements, in input order
RECURSIVE BodiesUpTo(_)
BodiesUpTo(k) ==
    IF k = 0 THEN ""
    ELSE IF k = 1 THEN outcome[1].completeBody[1]
    ELSE BodiesUpTo(k - 1) \o "," \o outcome[k].completeBody[1]

\* highest input index among a non-empty set of indices
Highest(S) == CHOOSE i \in S : \A j \in S : j <= i

\* C1: when no operation fails, the body handed over for a batch of N
\* elements is '[' body_1 ',' ... ',' body_N ']' in input order, whatever the
\* order of completion, and it is the only body handed over.
BatchBodyInInputOrder ==
    (Delivered /\ AllResolved /\ bodyIsArray) =>
        /\ Merged.body = Some("[" \o BodiesUpTo(batchSize) \o "]")
        /\ coordinator = "getMiddleware" => Len(res.sent) = 1

\* C1 witness: a batch of two whose second element completed first, with
\* different bodies, has been returned by runBatchHttpQuery.
BatchReturnedOutOfOrder ==
    /\ coordinator = "runBatchHttpQuery"
    /\ result.kind = "response"
    /\ batchSize = 2
    /\ order = <<2, 1>>
    /\ outcome[1].completeBody # outcome[2].completeBody

CompletionRank(i) == CHOOSE p \in 1 .. Len(order) : order[p] = i

\* the element of a non-empty set of indices that completed last
LastCompleted(S) == CHOOSE i \in S : \A j \in S : CompletionRank(j) <= CompletionRank(i)

NoStatusSet == \A i \in Indices : outcome[i].statusCode = Unset

\* C4 (as claimed): when no operation sets a status, the merged response the
\* batch coordinator hands over carries status 200.
DefaultStatusApplied ==
    (Delivered /\ AllResolved /\ NoStatusSet) => Merged.statusCode = 200

\* C4 (amended): when no operation sets a status, runBatchHttpQuery returns
\* its merged response with the status unset; the default 200 is applied by
\* the Express middleware, which sends with status 200.
DefaultStatusLeftToTransport ==
    (Delivered /\ AllResolved /\ NoStatusSet) =>
        /\ coordinator = "runBatchHttpQuery" => Merged.statusCode = Unset
        /\ coordinator = "getMiddleware" => Merged.statusCode = 200

\* C4 witness: runBatchHttpQuery returned a batch of two in which no
\* operation set a status.
BatchReturnedWithoutStatus ==
    /\ coordinator = "runBatchHttpQuery"
    /\ result.kind = "response"
    /\ batchSize = 2
    /\ NoStatusSet

\* some operation failed with an HttpQueryError
SomeProtocolError ==
    \E i \in DOMAIN outcome : outcome[i].kind = "throw" /\ isHttpQueryError(outcome[i])

\* the messages of the HttpQueryErrors of the operations that failed
ProtocolErrorMessages ==
    {outcome[i].message : i \in {j \in DOMAIN outcome :
                                   outcome[j].kind = "throw" /\ isHttpQueryError(outcome[j])}}

\* C5 (as claimed): once an operation failed with an HttpQueryError, no merged
\* response is returned and nothing but a protocol error is sent.
NoBodyAfterProtocolError ==
    SomeProtocolError =>
        /\ result.kind # "response"
        /\ \A j \in 1 .. Len(res.sent) :
              /\ res.sent[j].body # Null
              /\ res.sent[j].body[1] \in ProtocolErrorMessages


(***************************************************************************)
(* Properties of the document store.                                       *)
(***************************************************************************)
RECURSIVE SumOfLengths(_)
SumOfLengths(keys) ==
    IF keys = {} THEN 0
    ELSE LET k == CHOOSE x \in keys : TRUE
         IN  cache[k].length + SumOfLengths(keys \ {k})

\* C6: the sizes of the live entries sum to at most the capacity, and
\* getTotalSize() is that sum, after any sequence of store calls.
TotalSizeWithinCapacity ==
    /\ getTotalSize = SumOfLengths(DOMAIN cache)
    /\ SumOfLengths(DOMAIN cache) <= Max
    /\ \A k \in DOMAIN cache : cache[k].length = jsonBytesSizeCalculator(cache[k].value)

\* C6 witness: a set that had to evict left two live entries that fill the
\* capacity exactly.
StoreFullAfterEviction ==
    /\ lastOp.op = "set"
    /\ lastOp.evicted # {}
    /\ Cardinality(Live) = 2
    /\ getTotalSize = Max

\* C7: the entries a set evicts to make room are the least recently accessed
\* ones, a get hit and a set both counting as an access: every entry it keeps
\* was accessed after every entry it evicts, and it evicts no more than needed
\* (the entry of the hash being set is replaced, not evicted).
EvictsLeastRecentlyAccessed ==
    [][lastOp'.op = "set" =>
        LET h == lastOp'.key
            evicted == (Live \ Live') \ {h}
            kept == (Live \cap Live') \ {h}
        IN  /\ \A e \in evicted : \A k \in kept : AccessedAfter(k, e)
            /\ \A e \in evicted :
                  (\A f \in evicted : f = e \/ AccessedAfter(e, f)) =>
                      getTotalSize' + cache[KeyPrefix(e)].length > Max]_vars

\* C7 witness: a set of h3 evicted h2 and kept h1, which was accessed after h2.
EvictedOlderEntry ==
    /\ lastOp.op = "set"
    /\ lastOp.key = "h3"
    /\ lastOp.evicted = {"h2"}
    /\ Live = {"h1", "h3"}
    /\ accessOrder = <<"h3", "h1", "h2">>

\* C8: a set of a live hash with an equal document leaves the live entries
\* and getTotalSize() as they were and makes that entry the most recently used.
SetOfEqualContentIsIdempotent ==
    [][(/\ lastOp'.op = "set"
        /\ lastOp'.key \in Live
        /\ Some(Deserialize(cache[KeyPrefix(lastOp'.key)].value)) = lastOp'.value) =>
            /\ Live' = Live
            /\ cache' = cache
            /\ getTotalSize' = getTotalSize
            /\ lruList' = <<KeyPrefix(lastOp'.key)>> \o RemoveKey(lruList, KeyPrefix(lastOp'.key))]_vars

\* C8 witness: a live hash that was not the most recently used has been set
\* again with the document it held, next to another live entry.
EqualContentSetAgain ==
    /\ lastOp.op = "set"
    /\ lastOp.previous = lastOp.value
    /\ Cardinality(Live) >= 2
    /\ lruList[1] = KeyPrefix(lastOp.key)
    /\ accessOrder[1] = lastOp.key


(***************************************************************************)
(* Properties of the pipeline's use of the document store.                 *)
(***************************************************************************)
Started == {p \in DOMAIN run : run[p].pc # "idle"}
Done == {p \in DOMAIN run : run[p].pc = "done"}

\* every run so far was a run of query q
OnlyQuery(q) == Started # {} /\ \A p \in Started : run[p].query = q

\* what documentStore.get(hash) would return now
StoredDocument(h) ==
    IF h \in Live THEN Some(Deserialize(cache[KeyPrefix(h)].value)) ELSE Null

\* the same query run k times in sequence: one set and one parse (those of
\* the first run), a get per run, the document in the store after the first
\* run, and no later run parses
SingleParse(q) ==
    /\ Done # {} =>
          /\ setCalls = 1
          /\ parseCalls = 1
          /\ getCalls >= Cardinality(Done)
          /\ StoredDocument(QueryHash(q)) = Some(ParseQuery(q))
    /\ \A p \in Started :
          p > 1 => /\ run[p].pc \notin {"parse", "populate"}
                   /\ run[p].pc \in {"execute", "done"} =>
                         run[p].document = Some(ParseQuery(q))

\* C9 (as claimed): with a caching store, k runs of the same query in
\* sequence call set exactly once and get at least once per run, and after
\* the first run the store holds the document and later runs do not parse.
SameQueryParsedOnce ==
    documentStore = "KeyvLRU" => \A q \in Queries : OnlyQuery(q) => SingleParse(q)

\* C9 (amended): the same, for a query whose document's computed size does
\* not exceed the capacity of the store.
SameQueryParsedOnceWhenItFits ==
    documentStore = "KeyvLRU" =>
        \A q \in Queries :
            (OnlyQuery(q) /\ DocumentBytes(ParseQuery(q)) <= Max) => SingleParse(q)

\* C9 witness: three runs of q1 against the caching store are over, with one
\* set and three gets.
ThreeRunsOneSet ==
    /\ documentStore = "KeyvLRU"
    /\ OnlyQuery("q1")
    /\ Cardinality(Done) = 3
    /\ setCalls = 1
    /\ getCalls = 3

\* C10: with a null document store no run calls get or set, every run parses
\* its query, and every finished run returns its normal result.
NullStoreNeverConsulted ==
    documentStore = "null" =>
        /\ getCalls = 0
        /\ setCalls = 0
        /\ DOMAIN cache = {}
        /\ \A p \in Started : run[p].pc \notin {"lookup", "populate"}
        /\ parseCalls = Cardinality({p \in Started : run[p].pc \in {"execute", "done"}})
        /\ \A p \in Done :
              run[p].response = Some(<<"data", ParseQuery(run[p].query)>>)

\* C10 witness: with a null store the same query has run twice and was
\* parsed twice.
NullStoreParsedTwice ==
    /\ documentStore = "null"
    /\ OnlyQuery("q1")
    /\ Cardinality(Done) = 2
    /\ parseCalls = 2

(***************************************************************************)
(* Properties of runHttpQuery.                                             *)
(***************************************************************************)
Method(c) == c.httpRequest[1].method

\* c ended by throwing an HttpQueryError with this status and message
ThrewHttpQueryError(c, statusCode, message) ==
    /\ c.pc = "done"
    /\ c.result.kind = "throw"
    /\ c.result.name = "HttpQueryError"
    /\ c.result.statusCode = statusCode
    /\ c.result.message = message

GuardMessage == "GET supports only query operation"

\* C11: a GET whose resolved operation is no query ends with the 405 error
\* that carries Allow: POST, after the parse, the validation and the
\* resolution of the operation and without any execution; a GET query and
\* every POST pass the guard and go on to the execution.
GetGuardRejectsNonQueries ==
    \A p \in Calls :
        LET c == call[p]
        IN  c.operation # Null =>
              IF Method(c) = "GET" /\ c.operation[1] # "query"
              THEN /\ ThrewHttpQueryError(c, 405, GuardMessage)
                   /\ c.result.headers = [Allow |-> "POST"]
                   /\ c.parsed /\ c.validated
                   /\ ~c.executed
                   /\ c.response = Null
              ELSE /\ c.pc \in {"execute", "returned", "done"}
                   /\ c.pc # "execute" => c.executed
                   /\ ~ThrewHttpQueryError(c, 405, GuardMessage)

\* C11 witness: a GET with a mutation was rejected with 405 after its
\* operation was resolved.
GetMutationRejected ==
    \E p \in Calls :
        /\ call[p].pc = "done"
        /\ Method(call[p]) = "GET"
        /\ call[p].operation = Some("mutation")
        /\ call[p].result.statusCode = 405

\* the pipeline of call c resolved with a response, and the call is over
Answered(c) == c.pc = "done" /\ c.response # Null

\* the text of a body with the given members, as the wire format has them
BodyText(errors, data, extensions) ==
    "{"
    \o (IF errors = Null THEN "" ELSE "\"errors\":" \o ErrorsJson(errors[1]))
    \o (IF data = Null THEN ""
        ELSE (IF errors = Null THEN "" ELSE ",") \o "\"data\":" \o DataJson(data[1]))
    \o (IF extensions = Null THEN ""
        ELSE ",\"extensions\":" \o ExtensionsJson(extensions[1]))
    \o "}\n"

\* the call returned an error-only body for a response without data
ErrorOnlyAnswer(c) ==
    LET r == c.response[1]
    IN  /\ c.result.kind = "response"
        /\ c.result.completeBody = Some(BodyText(r.errors, Null, r.extensions))
        /\ c.result.statusCode = (IF r.statusCode # Unset THEN r.statusCode ELSE 400)

\* the call returned a body with a data key and set no status of its own
DataAnswer(c) ==
    LET r == c.response[1]
    IN  /\ c.result.kind = "response"
        /\ c.result.completeBody = Some(BodyText(r.errors, Some(r.data), r.extensions))
        /\ c.result.statusCode = r.statusCode

\* C12 (as claimed): a response with errors and no data is returned as an
\* error-only body (errors and extensions, never data) with status 400
\* unless another status was set on the partial response; once the
\* execution was reached the returned body has a data key and the call
\* sets no status.
ErrorOnlyOrDataBody ==
    \A p \in Calls :
        Answered(call[p]) =>
            IF call[p].response[1].errors # Null /\ call[p].response[1].data = "undefined"
            THEN ErrorOnlyAnswer(call[p])
            ELSE call[p].executed /\ DataAnswer(call[p])

\* the object the fields of call c are read from
Container(c) ==
    IF Method(c) = "POST" THEN c.httpRequest[1].body ELSE c.httpRequest[1].searchParams

\* call c was made with GET or POST and an object that has some keys
HasFields(c) ==
    /\ c.pc # "idle"
    /\ Method(c) \in {"GET", "POST"}
    /\ isNonEmptyStringRecord(Container(c))

\* the query property is present and is no string
NonStringQuery(c) ==
    /\ "query" \in DOMAIN Container(c).f
    /\ Container(c).f["query"].t # "string"

\* nothing of the pipeline ran for call c
PipelineNeverRun(c) ==
    /\ c.pc = "done"
    /\ c.graphqlRequest = Null
    /\ ~c.parsed /\ ~c.cacheTouched /\ ~c.executed
    /\ c.response = Null

\* the message a non-string query is rejected with
NonStringMessage(query) ==
    IF query.t = "object" /\ "kind" \in DOMAIN query.f /\ query.f["kind"] = Str("Document")
    THEN QueryIsAnAst
    ELSE QueriesMustBeStrings

\* call c was rejected because of its query
RejectedForQuery(c) ==
    /\ c.result.kind = "throw"
    /\ c.result.message \in {QueryIsAnAst, QueriesMustBeStrings}

\* C13 (as claimed): a query that is present and no string makes the
\* translation fail with status 400 and the pipeline is never run; the
\* message is the AST guidance exactly when the value is an object of kind
\* Document, the generic one otherwise; an absent or string query is not
\* rejected.
NonStringQueryRejected ==
    \A p \in Calls :
        HasFields(call[p]) =>
            IF NonStringQuery(call[p])
            THEN /\ ThrewHttpQueryError(call[p], 400,
                                        NonStringMessage(Container(call[p]).f["query"]))
                 /\ PipelineNeverRun(call[p])
            ELSE ~RejectedForQuery(call[p])

\* C13 (amended): the same for a query that is a truthy non-string; null,
\* false, 0 and the empty string count as a missing query.
TruthyNonStringQueryRejected ==
    \A p \in Calls :
        HasFields(call[p]) =>
            IF NonStringQuery(call[p]) /\ Truthy(Container(call[p]).f["query"])
            THEN /\ ThrewHttpQueryError(call[p], 400,
                                        NonStringMessage(Container(call[p]).f["query"]))
                 /\ PipelineNeverRun(call[p])
            ELSE /\ ~RejectedForQuery(call[p])
                 /\ call[p].graphqlRequest # Null =>
                        call[p].graphqlRequest[1].query \in
                            {Undefined} \cup {Str(q) : q \in QueryTexts \cup {""}}

\* C13 witness: a POST whose query is a parsed document was rejected with
\* the AST guidance, and nothing of the pipeline ran.
AstQueryRejected ==
    \E p \in Calls :
        /\ HasFields(call[p])
        /\ Method(call[p]) = "POST"
        /\ Field(Container(call[p]), "query") = DocumentAst
        /\ ThrewHttpQueryError(call[p], 400, QueryIsAnAst)
        /\ PipelineNeverRun(call[p])

\* v is an object with at least one key
NonEmptyObject(v) == v.t = "object" /\ DOMAIN v.f # {}

\* C14: a POST whose body is no non-empty object (missing, null, a
\* primitive, an array, a buffer, {}) fails with 400 and the POST body
\* message, and a GET without search parameters fails with 400 "GET query
\* missing.", both before any field is extracted and before the pipeline.
EmptyRequestsRejected ==
    \A p \in Calls :
        LET c == call[p]
        IN  /\ (c.pc # "idle" /\ Method(c) = "POST"
                  /\ ~NonEmptyObject(c.httpRequest[1].body))
               => /\ ThrewHttpQueryError(c, 400, PostBodyMissing)
                  /\ PipelineNeverRun(c)
            /\ (c.pc # "idle" /\ Method(c) = "GET"
                  /\ ~NonEmptyObject(c.httpRequest[1].searchParams))
               => /\ ThrewHttpQueryError(c, 400, GetQueryMissing)
                  /\ PipelineNeverRun(c)

\* C14 witness: a POST with the body {} was rejected with the POST body
\* message.
EmptyObjectBodyRejected ==
    \E p \in Calls :
        /\ call[p].pc = "done"
        /\ Method(call[p]) = "POST"
        /\ call[p].httpRequest[1].body = EmptyObj
        /\ ThrewHttpQueryError(call[p], 400, PostBodyMissing)

\* how the text of a search parameter reads as JSON
InvalidJson == {"{bad"}
NonObjectJson == {"[1]", "null", "1", "\"s\"", "true"}

ParamClass(v) ==
    IF v.t # "string" \/ v = Str("") THEN "absent"
    ELSE IF v.s \in InvalidJson THEN "invalid"
    ELSE IF v.s \in NonObjectJson THEN "nonobject"
    ELSE "object"

\* the field of the GraphQL request a search parameter of that class gives
ParamValue(v) == IF ParamClass(v) = "object" THEN JsonParse(v.s).value ELSE Undefined

\* the search parameter fieldName of call c is what makes the translation fail
ParamRejected(c, fieldName) ==
    LET v == Field(Container(c), fieldName)
    IN  /\ ParamClass(v) = "invalid" =>
              ThrewHttpQueryError(c, 400, InvalidJsonMessage(fieldName))
        /\ ParamClass(v) = "nonobject" =>
              ThrewHttpQueryError(c, 400, NotAnObjectMessage(fieldName))

Accepted(v) == ParamClass(v) \in {"absent", "object"}

\* call c has fields and its query passes
QueryPasses(c) ==
    HasFields(c) /\ ~(NonStringQuery(c) /\ Truthy(Container(c).f["query"]))

\* C15: for a GET, variables and extensions (in this order) that are a
\* non-empty string of invalid JSON fail with 400 "invalid JSON", of JSON
\* that is no plain object with 400 "should contain a JSON-encoded object";
\* a JSON object is passed on as that object, an absent or empty one as
\* absent.  For a POST a value that is no plain object is dropped and never
\* an error.
ParametersParsedFieldsDropped ==
    \A p \in Calls :
        LET c == call[p]
            variables == Field(Container(c), "variables")
            extensions == Field(Container(c), "extensions")
        IN  QueryPasses(c) =>
              IF Method(c) = "GET"
              THEN /\ ParamRejected(c, "variables")
                   /\ Accepted(variables) => ParamRejected(c, "extensions")
                   /\ (Accepted(variables) /\ Accepted(extensions)) =>
                        /\ c.graphqlRequest # Null
                        /\ c.graphqlRequest[1].variables = ParamValue(variables)
                        /\ c.graphqlRequest[1].extensions = ParamValue(extensions)
              ELSE /\ c.graphqlRequest # Null
                   /\ c.graphqlRequest[1].variables =
                        (IF variables.t = "object" THEN variables ELSE Undefined)
                   /\ c.graphqlRequest[1].extensions =
                        (IF extensions.t = "object" THEN extensions ELSE Undefined)

\* C15 witness: a GET whose variables parameter is the text of a JSON object
\* was translated, and the GraphQL request holds that object.
VariablesParameterParsed ==
    \E p \in Calls :
        /\ call[p].pc # "idle"
        /\ Method(call[p]) = "GET"
        /\ Field(Container(call[p]), "variables") = Str("{\"a\":1}")
        /\ call[p].graphqlRequest # Null
        /\ call[p].graphqlRequest[1].variables = Obj([a |-> Num(1)])

\* C16: a method other than GET and POST fails with 405 and the header
\* Allow: GET, POST whatever the body and the search parameters are, and
\* nothing of the pipeline (cache, execution) runs.
OtherMethodsRejected ==
    \A p \in Calls :
        (call[p].pc # "idle" /\ Method(call[p]) \notin {"GET", "POST"}) =>
            /\ ThrewHttpQueryError(call[p], 405, OnlyGetPost)
            /\ call[p].result.headers = [Allow |-> "GET, POST"]
            /\ PipelineNeverRun(call[p])

\* C16 witness: a PUT without a body was rejected with 405, not with the
\* 400 of a missing body.
PutWithoutBodyRejected ==
    \E p \in Calls :
        /\ call[p].pc = "done"
        /\ Method(call[p]) = "PUT"
        /\ call[p].httpRequest[1].body = Undefined
        /\ call[p].result.statusCode = 405

(***************************************************************************)
(* Properties of runBatchHttpQuery over its calls of runHttpQuery.         *)
(***************************************************************************)
\* e is a protocol-level error: an HttpQueryError with its status
ProtocolError(e) == e.kind = "throw" /\ e.name = "HttpQueryError" /\ e.statusCode # Unset

\* the pipeline of every operation resolved with a response, that of some
\* operation with errors, and every callback is over
AllAnsweredSomeWithErrors ==
    /\ batchSize > 0
    /\ DOMAIN outcome = Indices
    /\ \A i \in Indices : Answered(call[i])
    /\ \E i \in Indices : call[i].response[1].errors # Null

\* the body an operation contributes for the response of its pipeline
BodyOf(r) ==
    Some(BodyText(r.errors, IF r.data = "undefined" THEN Null ELSE Some(r.data),
                  r.extensions))

\* C17 (as claimed): when some operations of a batch end with a GraphQL
\* error body (parse, validation or execution errors) and none raises a
\* protocol-level error, the batch is not aborted: the callbacks all fulfil
\* and what is returned is the array with one body per operation, each at
\* its own position.
ErrorBodiesDoNotAbortSiblings ==
    (AllAnsweredSomeWithErrors /\ \A i \in Indices : ~ProtocolError(call[i].result)) =>
        /\ allPromise.state = "pending"
        /\ AllFulfilled
        /\ result.kind \in {"pending", "response"}
        /\ result.kind = "response" =>
              result.completeBody =
                  ArrayLiteral([i \in Indices |-> BodyOf(call[i].response[1])], batchSize)

\* the execution of call c threw
ExecutionThrew(c) == c.pc = "done" /\ c.executed /\ c.response = Null

\* C18 (as claimed): whatever runHttpQuery or runBatchHttpQuery throws is a
\* protocol-level error with a status; an exception of the execution is
\* wrapped as a 500 whose body is the formatted errors; no raw exception
\* reaches the caller.
OnlyProtocolErrorsReachCaller ==
    /\ \A p \in Calls :
          /\ call[p].result.kind = "throw" => ProtocolError(call[p].result)
          /\ ExecutionThrew(call[p]) =>
                ThrewHttpQueryError(call[p], 500,
                    "{\"errors\":[{\"message\":\"resolver crashed\"}]}\n")
    /\ result.kind = "throw" => ProtocolError(result)

(***************************************************************************)
(* Properties of concurrent runs against the document store.               *)
(***************************************************************************)
\* every live key is in the list once, and the list holds live keys only
OneEntryPerKey ==
    /\ \A i, j \in 1 .. Len(lruList) : lruList[i] = lruList[j] => i = j
    /\ {lruList[i] : i \in 1 .. Len(lruList)} = DOMAIN cache

\* run p is past its lookup and parse
HasDocument(p) == run[p].pc \in {"populate", "execute", "done"}

\* C19: under every interleaving of runs in flight together against the
\* shared store (runs of the same query against a cold store among them)
\* the store stays consistent: at most one live entry per hash, which holds
\* the document of that hash, the total size is the sum of the live sizes
\* and within the capacity, and every run obtains the document of its
\* query; more than one parse and set of the same query may happen.
ConcurrentRunsKeepStoreConsistent ==
    /\ OneEntryPerKey
    /\ getTotalSize = SumOfLengths(DOMAIN cache)
    /\ getTotalSize <= Max
    /\ \A q \in Queries :
          QueryHash(q) \in Live => StoredDocument(QueryHash(q)) = Some(ParseQuery(q))
    /\ \A p \in Started :
          HasDocument(p) => run[p].document = Some(ParseQuery(run[p].query))
    /\ parseCalls <= Cardinality(Started)

\* C19 witness: two runs of q1 that were in flight together against the
\* cold store both missed, both parsed and both called set, and the store
\* holds one entry.
BothRunsParsedAndSet ==
    /\ documentStore = "KeyvLRU"
    /\ OnlyQuery("q1")
    /\ Cardinality(Done) = 2
    /\ parseCalls = 2
    /\ setCalls = 2
    /\ Live = {"h1"}
    /\ lruList = <<KeyPrefix("h1")>>

(***************************************************************************)
(* Properties of the context of the operations of a batch.                 *)
(***************************************************************************)
\* the calls that have a context: those whose request was translated
WithContext == {p \in Calls : call[p].context # Null}

\* C20: every operation of a batch runs with a context object of its own,
\* a copy of the caller's: the field an operation writes on its context
\* shows on that context only, never on a sibling's nor on the caller's,
\* while the object a context field references is the one object shared by
\* all copies, so that what one operation does to it shows to the others.
ContextCopiedShallow ==
    /\ heap[CallerContext].marker = Null
    /\ \A p \in WithContext :
          LET own == call[p].context[1]
          IN  /\ own # CallerContext
              /\ \A q \in WithContext : q # p => call[q].context[1] # own
              /\ heap[own].marker = call[p].wrote
              /\ heap[own].dataSources = heap[CallerContext].dataSources
              /\ heap[heap[own].dataSources] = heap[DataSource]

\* C20 witness: two operations of a batch each wrote the marker on their
\* context and both used the shared data source.
SiblingsWroteOwnMarkers ==
    /\ batchSize = 2
    /\ call[1].wrote = Some(1)
    /\ call[2].wrote = Some(2)
    /\ heap[ContextOf(1)].marker = Some(1)
    /\ heap[ContextOf(2)].marker = Some(2)
    /\ heap[DataSource].users = {1, 2}

(***************************************************************************)
(* Properties of a batch with an incremental response.                     *)
(***************************************************************************)
\* runHttpQuery resolved for some element with a response without completeBody
SomeIncremental ==
    \E i \in DOMAIN outcome :
        outcome[i].kind = "response" /\ outcome[i].completeBody = Null

\* C21: once an operation of a batch gave an incremental response
\* (completeBody null) the batch fails as a whole: the aggregate await is
\* rejected, no merged response is returned or sent, and no array body,
\* truncated or partial, goes out, also when every sibling completed with a
\* full body.
IncrementalFailsWholeBatch ==
    SomeIncremental =>
        /\ allPromise.state = "rejected"
        /\ result.kind \in {"pending", "throw"}
        /\ combinedResponse.completeBody = ""
        /\ \A j \in 1 .. Len(res.sent) :
              /\ res.sent[j].body # Null
              /\ res.sent[j].body[1] \in ProtocolErrorMessages

\* C21 witness: in a batch of two one operation completed with a full body,
\* the other gave an incremental response, and the coordinator threw the
\* error of the incremental delivery.
IncrementalAfterFullSibling ==
    /\ batchSize = 2
    /\ \E i, j \in DOMAIN outcome :
          /\ pc[i] = "fulfilled"
          /\ outcome[i].kind = "response"
          /\ outcome[i].completeBody # Null
          /\ outcome[j].kind = "response"
          /\ outcome[j].completeBody = Null
    /\ result.kind = "throw"
    /\ result.message = "Incremental delivery not implemented"

(***************************************************************************)
(* Progress of runBatchHttpQuery.                                          *)
(***************************************************************************)
\* the callback of every element returned a body
EveryOperationCompleted == \A i \in Indices : pc[i] = "fulfilled"

\* C22: runBatchHttpQuery returns a merged response only when every
\* operation has completed, and throws only when one has failed; once every
\* operation has completed with a body it does return the response; while an
\* operation is still running and none has failed it neither returns nor
\* throws, however long that lasts.
BatchReturnsAfterAllCompleted ==
    /\ [](result.kind = "response" => EveryOperationCompleted)
    /\ [](result.kind = "throw" => \E i \in Indices : pc[i] = "rejected")
    /\ (EveryOperationCompleted ~> result.kind = "response")

\* C22 witness: both operations of a batch of two completed, the second
\* one first, and the merged response was returned after that.
BatchOfTwoCompletedThenReturned ==
    /\ coordinator = "runBatchHttpQuery"
    /\ batchSize = 2
    /\ Len(order) = 2
    /\ EveryOperationCompleted
    /\ result.kind = "response"
    /\ result.completeBody = ArrayLiteral(responseBodies, 2)

(***************************************************************************)
(* Properties of the plugins of concurrent requests.                       *)
(***************************************************************************)
\* the guard is not among the plugins of the shared options
SharedPluginsUnguarded ==
    \A i \in 1 .. Len(serverOptions.plugins) : serverOptions.plugins[i] # GetGuard

\* a POST runs with the plugins of the shared options and passes the guard:
\* its mutation goes on to the execution
PostPassesGuard(c) ==
    (c.graphqlRequest # Null /\ Method(c) = "POST") =>
        /\ c.plugins = serverOptions.plugins
        /\ ~ThrewHttpQueryError(c, 405, GuardMessage)
        /\ c.operation = Some("mutation") =>
              /\ c.pc \in {"execute", "returned", "done"}
              /\ c.pc # "execute" => c.executed

\* C23: the guard of a GET is local to its call: no step of runHttpQuery
\* changes the plugins of the shared options, the guard is never among
\* them, and a POST, after or beside any GET, runs with the shared plugins
\* and its mutation is never rejected by the guard.
GuardIsLocalToItsRequest ==
    /\ [][serverOptions'.plugins = serverOptions.plugins]_vars
    /\ []SharedPluginsUnguarded
    /\ [](\A p \in Calls : PostPassesGuard(call[p]))

\* C23 witness: a POST mutation was executed while a GET, the guard first
\* among its plugins, was in flight.
PostMutationExecutedBesideGet ==
    \E p, q \in Calls :
        /\ call[p].pc \in {"parse", "validate", "resolveOperation"}
        /\ Method(call[p]) = "GET"
        /\ call[p].plugins[1] = GetGuard
        /\ call[q].executed
        /\ Method(call[q]) = "POST"
        /\ call[q].operation = Some("mutation")

(***************************************************************************)
(* Properties of the transport response of the Express middleware.         *)
(***************************************************************************)
\* C24 (as claimed): the middleware sends the response of a request at most
\* once, exactly once when it is through, and once a body went out no
\* header and no status is written to the response any more.
ResponseSentOnce ==
    coordinator = "getMiddleware" =>
        /\ Len(res.sent) <= 1
        /\ result.kind = "sent" => Len(res.sent) = 1
        /\ Len(res.sent) >= 1 =>
              /\ res.headers = res.sent[1].headers
              /\ res.statusCode = res.sent[1].statusCode

====
